---- MODULE Spec2Model ----
(***************************************************************************)
(* Model of stashdir: the bookmark store (internal/store/store.go) and the *)
(* command dispatcher (cmd/stashdir/main.go).                              *)
(*                                                                         *)
(* A path is a sequence of one-character strings.  The backing file is a   *)
(* record: absent, unreadable, not JSON at all, or a JSON document whose   *)
(* "items" array holds strings and possibly values that are no strings.    *)
(* os.WriteFile is taken to complete; ReadFile may fail.                   *)
(***************************************************************************)
EXTENDS Integers, Sequences, FiniteSets, TLC

\* ------------------------------------------------------------------ bounds
MaxItems == 3

\* ----------------------------------------------------------- byte strings
Ord(c) ==
  CASE c = " " -> 32
    [] c = "+" -> 43
    [] c = "-" -> 45
    [] c = "." -> 46
    [] c = "/" -> 47
    [] c = "0" -> 48
    [] c = "1" -> 49
    [] c = "2" -> 50
    [] c = "3" -> 51
    [] c = "4" -> 52
    [] c = "5" -> 53
    [] c = "6" -> 54
    [] c = "7" -> 55
    [] c = "8" -> 56
    [] c = "9" -> 57
    [] c = "A" -> 65
    [] c = "B" -> 66
    [] c = "a" -> 97
    [] c = "b" -> 98
    [] c = "c" -> 99
    [] OTHER -> 120

IsDigit(c) == Ord(c) >= 48 /\ Ord(c) <= 57

IsSeparator(c) == c = "/"

IsSpace(c) == c = " "

RECURSIVE TrimLeft(_)
TrimLeft(s) ==
  IF s # <<>> /\ IsSpace(Head(s)) THEN TrimLeft(Tail(s)) ELSE s

RECURSIVE TrimRight(_)
TrimRight(s) ==
  IF s # <<>> /\ IsSpace(s[Len(s)]) THEN TrimRight(SubSeq(s, 1, Len(s) - 1)) ELSE s

TrimSpace(s) == TrimRight(TrimLeft(s))

ToLowerCh(c) ==
  CASE c = "A" -> "a"
    [] c = "B" -> "b"
    [] OTHER -> c

ToLower(s) == [i \in 1..Len(s) |-> ToLowerCh(s[i])]

\* s < t for Go strings: bytewise lexicographic order
RECURSIVE StrLess(_, _)
StrLess(s, t) ==
  IF t = <<>> THEN FALSE
  ELSE IF s = <<>> THEN TRUE
  ELSE IF Ord(Head(s)) # Ord(Head(t)) THEN Ord(Head(s)) < Ord(Head(t))
  ELSE StrLess(Tail(s), Tail(t))

\* --------------------------------------------------------- filepath.Clean
\* The lexical cleaning of path/filepath with the separator written "/".  The
\* alphabet has no colon, so no path carries a Windows volume name, and the
\* Windows build differs from the others in isWindows alone.
\* the backtracking loop of the ".." case: w counts the bytes kept in out
RECURSIVE Backtrack(_, _, _)
Backtrack(out, w, dotdot) ==
  IF w > dotdot /\ ~IsSeparator(out[w + 1])
  THEN Backtrack(out, w - 1, dotdot)
  ELSE SubSeq(out, 1, w)

\* the bytes of the path element that starts at (1-based) position r
RECURSIVE Element(_, _)
Element(path, r) ==
  IF r > Len(path) \/ IsSeparator(path[r]) THEN <<>>
  ELSE <<path[r]>> \o Element(path, r + 1)

\* the main loop of Clean; r is the 1-based read position
RECURSIVE CleanLoop(_, _, _, _, _)
CleanLoop(path, r, out, dotdot, rooted) ==
  LET n == Len(path) IN
  IF r > n THEN out
  ELSE IF IsSeparator(path[r]) THEN CleanLoop(path, r + 1, out, dotdot, rooted)
  ELSE IF path[r] = "." /\ (r = n \/ IsSeparator(path[r + 1]))
    THEN CleanLoop(path, r + 1, out, dotdot, rooted)
  ELSE IF path[r] = "." /\ path[r + 1] = "." /\ (r + 1 = n \/ IsSeparator(path[r + 2]))
    THEN IF Len(out) > dotdot
           THEN CleanLoop(path, r + 2, Backtrack(out, Len(out) - 1, dotdot), dotdot, rooted)
         ELSE IF ~rooted
           THEN LET o == (IF Len(out) > 0 THEN out \o <<"/">> ELSE out) \o <<".", ".">>
                IN CleanLoop(path, r + 2, o, Len(o), rooted)
         ELSE CleanLoop(path, r + 2, out, dotdot, rooted)
  ELSE LET e == Element(path, r)
           o == IF (rooted /\ Len(out) # 1) \/ (~rooted /\ Len(out) # 0)
                THEN out \o <<"/">> ELSE out
       IN CleanLoop(path, r + Len(e), o \o e, dotdot, rooted)

Clean(path) ==
  IF path = <<>> THEN <<".">>
  ELSE LET rooted == IsSeparator(path[1])
           out == IF rooted THEN CleanLoop(path, 2, <<"/">>, 1, TRUE)
                  ELSE CleanLoop(path, 1, <<>>, 0, FALSE)
       IN IF out = <<>> THEN <<".">> ELSE out

\* ------------------------------------------------------------- the store
\* normalize(p) on a platform whose separator is (windows) or is not a backslash
normalize(p, win) ==
  LET c == Clean(TrimSpace(p)) IN IF win THEN ToLower(c) ELSE c

\* the less function handed to sort.Slice
less(a, b) == StrLess(ToLower(a), ToLower(b))

\* sort.Slice is pdqsort_func: a slice of at most maxInsertion elements is
\* sorted by insertion
maxInsertion == 12

RECURSIVE Sink(_, _)
Sink(s, j) ==
  IF j > 1 /\ less(s[j], s[j - 1])
  THEN Sink([s EXCEPT ![j] = s[j - 1], ![j - 1] = s[j]], j - 1)
  ELSE s

RECURSIVE InsertionSort(_, _)
InsertionSort(s, i) ==
  IF i > Len(s) THEN s ELSE InsertionSort(Sink(s, i), i + 1)

\* positions are those of the Go code: zero-based, a slice is [a, b)
lessAt(s, i, j) == less(s[i + 1], s[j + 1])

Swap(s, i, j) == [s EXCEPT ![i + 1] = s[j + 1], ![j + 1] = s[i + 1]]

insertionSort_func(s, a, b) ==
  SubSeq(s, 1, a) \o InsertionSort(SubSeq(s, a + 1, b), 2) \o SubSeq(s, b + 1, Len(s))

order2_func(s, a, b, swaps) ==
  IF lessAt(s, b, a) THEN [a |-> b, b |-> a, swaps |-> swaps + 1]
  ELSE [a |-> a, b |-> b, swaps |-> swaps]

\* median_func: a, b = order2(a, b); b, c = order2(b, c); a, b = order2(a, b);
\* the median is the b of the last step
medianLast(s, x, y) == order2_func(s, x.a, y.a, y.swaps)

medianNext(s, c, x) == medianLast(s, x, order2_func(s, x.b, c, x.swaps))

median_func(s, a, b, c, swaps) == medianNext(s, c, order2_func(s, a, b, swaps))

\* the hint is "increasing" when finding the pivot took no swap
pivotAndHint(m) ==
  [pivot |-> m.b, hint |-> IF m.swaps = 0 THEN "increasing" ELSE "unknown"]

\* the pivot of a slice of 8 to 49 elements is the median of three
choosePivot_func(s, a, b) ==
  pivotAndHint(IF b - a >= 8
               THEN median_func(s, a + ((b - a) \div 4), a + ((b - a) \div 4) * 2,
                                a + ((b - a) \div 4) * 3, 0)
               ELSE [b |-> a + ((b - a) \div 4) * 2, swaps |-> 0])

\* on a slice of fewer than 50 elements partialInsertionSort_func moves nothing:
\* it reports whether the slice is sorted already
partialInsertionSort_func(s, a, b) ==
  \A i \in (a + 1)..(b - 1) : ~lessAt(s, i, i - 1)

\* for i <= j && less(data[i], data[a]) { i++ }
RECURSIVE scanUp(_, _, _, _)
scanUp(s, i, j, a) ==
  IF i <= j /\ lessAt(s, i, a) THEN scanUp(s, i + 1, j, a) ELSE i

\* for i <= j && !less(data[j], data[a]) { j-- }
RECURSIVE scanDown(_, _, _, _)
scanDown(s, i, j, a) ==
  IF i <= j /\ ~lessAt(s, j, a) THEN scanDown(s, i, j - 1, a) ELSE j

\* the loop of partition_func: both scans, then the pivot goes to j when the
\* scans have met, and otherwise data[i] and data[j] change places
RECURSIVE partitionLoop(_, _, _, _)
partitionSwap(s, a, i, j) ==
  IF i > j THEN [data |-> Swap(s, j, a), mid |-> j]
  ELSE partitionLoop(Swap(s, i, j), a, i + 1, j - 1)

partitionScan(s, a, i, j) == partitionSwap(s, a, i, scanDown(s, i, j, a))

partitionLoop(s, a, i, j) == partitionScan(s, a, scanUp(s, i, j, a), j)

partition_func(s, a, b, pivot) == partitionLoop(Swap(s, a, pivot), a, a + 1, b - 1)

\* a slice of maxInsertion + 1 elements is partitioned once and both parts are
\* sorted by insertion; what pdqsort_func does only from its second round on
\* (breakPatterns_func, partitionEqual_func, heapSort_func) needs a longer slice
RECURSIVE pdqsort_func(_, _, _)
pdqsortParts(p, a, b) == pdqsort_func(pdqsort_func(p.data, a, p.mid), p.mid + 1, b)

pdqsortRound(s, a, b, c) ==
  IF c.hint = "increasing" /\ partialInsertionSort_func(s, a, b) THEN s
  ELSE pdqsortParts(partition_func(s, a, b, c.pivot), a, b)

pdqsort_func(s, a, b) ==
  IF b - a <= maxInsertion THEN insertionSort_func(s, a, b)
  ELSE pdqsortRound(s, a, b, choosePivot_func(s, a, b))

sortInPlace(its) == pdqsort_func(its, 0, Len(its))

\* ------------------------------------------------------ the backing file
\* a JSON value of the "items" array that is not a string (a number, say)
NotAString == <<"#number">>

Absent == [kind |-> "absent", items |-> <<>>]

Unreadable == [kind |-> "unreadable", items |-> <<>>]

NotJSON == [kind |-> "syntax", items |-> <<>>]

Document(its) == [kind |-> "json", items |-> its]

\* json.Unmarshal into DB.Items: a value that is no string leaves the zero
\* string in its slot, decoding goes on, and the first such error is returned
Unmarshal(doc) ==
  [items |-> [i \in 1..Len(doc.items) |->
                IF doc.items[i] = NotAString THEN <<>> ELSE doc.items[i]],
   err   |-> IF \E i \in 1..Len(doc.items) : doc.items[i] = NotAString
             THEN "format" ELSE "nil"]

\* DB.load on a fresh handle: the Items it leaves behind and the error it returns
load(disk) ==
  IF disk.kind = "absent" THEN [items |-> <<>>, err |-> "nil"]
  ELSE IF disk.kind = "unreadable" THEN [items |-> <<>>, err |-> "io"]
  ELSE IF disk.kind = "syntax" THEN [items |-> <<>>, err |-> "format"]
  ELSE LET u == Unmarshal(disk) IN
       IF u.err # "nil" THEN u
       ELSE [items |-> sortInPlace(u.items), err |-> "nil"]

\* DB.save: the document MarshalIndent and WriteFile leave on disk
save(its) == Document(its)

\* Open: env tells whether the configuration directory can be found and made
OpenResult(disk, env) ==
  IF env # "ok" THEN [handle |-> FALSE, items |-> <<>>, err |-> "io"]
  ELSE [handle |-> TRUE, items |-> load(disk).items, err |-> "nil"]

List(its) == its

RemoveAt(its, k) == SubSeq(its, 1, k - 1) \o SubSeq(its, k + 1, Len(its))

\* the positions (1-based) of the entries the range loops of Add and RemovePath match
Matches(its, p, win) == {k \in 1..Len(its) : normalize(its[k], win) = p}

AddResult(its, disk, arg, win) ==
  LET p == normalize(arg, win) IN
  IF p = <<>> THEN [items |-> its, disk |-> disk, err |-> "empty path"]
  ELSE IF Matches(its, p, win) # {} THEN [items |-> its, disk |-> disk, err |-> "nil"]
  ELSE LET n == sortInPlace(Append(its, p))
       IN [items |-> n, disk |-> save(n), err |-> "nil"]

\* RemoveIndex with the upper bound test off by one
RemoveIndexOffByOne(its, disk, i) ==
  IF i < 0 \/ i > Len(its)
  THEN [items |-> its, disk |-> disk, err |-> "index out of range"]
  ELSE LET n == RemoveAt(its, i + 1)
       IN [items |-> n, disk |-> save(n), err |-> "nil"]

\* i is the zero-based index of the code
RemoveIndexResult(its, disk, i) ==
  IF i < 0 \/ i >= Len(its)
  THEN [items |-> its, disk |-> disk, err |-> "index out of range"]
  ELSE LET n == RemoveAt(its, i + 1)
       IN [items |-> n, disk |-> save(n), err |-> "nil"]

Min(S) == CHOOSE k \in S : \A j \in S : k <= j

\* RemovePath comparing the stored entries as they are, not normalized
RemovePathRawCompare(its, disk, arg, win) ==
  LET p == normalize(arg, win)
      m == {k \in 1..Len(its) : its[k] = p} IN
  IF m = {} THEN [items |-> its, disk |-> disk, err |-> "path not found"]
  ELSE LET n == RemoveAt(its, Min(m))
       IN [items |-> n, disk |-> save(n), err |-> "nil"]

RemovePathResult(its, disk, arg, win) ==
  LET p == normalize(arg, win)
      m == Matches(its, p, win) IN
  IF m = {} THEN [items |-> its, disk |-> disk, err |-> "path not found"]
  ELSE LET n == RemoveAt(its, Min(m))
       IN [items |-> n, disk |-> save(n), err |-> "nil"]

\* survey.AskOne: an option was chosen, the user interrupted, or the prompt failed
Answers(its) ==
  {[kind |-> "chosen", choice |-> its[k]] : k \in 1..Len(its)}
    \cup {[kind |-> "interrupt", choice |-> <<>>], [kind |-> "failure", choice |-> <<>>]}

\* SelectInteractive passing the interrupt on as an error
SelectInteractiveInterruptFails(its, answer) ==
  IF Len(List(its)) = 0 THEN [asked |-> FALSE, out |-> <<>>, err |-> "nil"]
  ELSE IF answer.kind = "chosen" THEN [asked |-> TRUE, out |-> answer.choice, err |-> "nil"]
  ELSE [asked |-> TRUE, out |-> <<>>, err |-> "prompt failed"]

\* asked: survey.AskOne was called
SelectInteractiveResult(its, answer) ==
  IF Len(List(its)) = 0 THEN [asked |-> FALSE, out |-> <<>>, err |-> "nil"]
  ELSE IF answer.kind = "interrupt" THEN [asked |-> TRUE, out |-> <<>>, err |-> "nil"]
  ELSE IF answer.kind = "failure" THEN [asked |-> TRUE, out |-> <<>>, err |-> "prompt failed"]
  ELSE [asked |-> TRUE, out |-> answer.choice, err |-> "nil"]

\* ------------------------------------------------------------------ state
VARIABLES
  windows,   \* os.PathSeparator is a backslash
  disk,      \* the backing file config.json
  handle,    \* Open returned a *DB
  items,     \* DB.Items of that handle
  last,      \* the call made last: operation, arguments and what it returned
  race       \* the invocations that run at the same time (SpecRace only)

vars == <<windows, disk, handle, items, last, race>>

\* no invocations run at the same time
NoRace == [pc |-> <<>>, mem |-> <<>>, wrote |-> <<>>]

\* p, i: the arguments; err, out: what the call returned; asked, answer: whether
\* the chooser was consulted and what it had to report
Call(op, p, i, err, out, asked, answer) ==
  [op |-> op, p |-> p, i |-> i, err |-> err, out |-> out, asked |-> asked,
   answer |-> answer]

\* the arguments the store is called with
Paths ==
  { <<>>,
    <<" ">>,
    <<"/", "b">>,
    <<"/", "A", "b">>,
    <<"/", "A", "B">>,
    <<" ", "/", "A", "b", "/", ".", "/", " ">>,
    <<"/", "b", "/", ".", ".", "/", "A", "b">>,
    <<"a">>,
    <<".", "/", " ", "a">> }

\* the documents found on disk when the program starts
InitialDisks ==
  { Absent, Unreadable, NotJSON,
    Document(<<>>),
    Document(<< <<"/", "b">>, <<"/", "A", "b">> >>),
    Document(<< <<"/", "b">>, <<"/", "A", "b">>, NotAString >>) }

\* "no config dir": os.UserConfigDir or os.MkdirAll returned an error
Environments == {"ok", "no config dir"}

Opened(d, env) ==
  LET r == OpenResult(d, env) IN
    /\ handle' = r.handle
    /\ items' = r.items
    /\ last' = Call("Open", <<>>, 0, r.err, <<>>, FALSE, "none")

Init ==
  /\ windows \in BOOLEAN
  /\ disk \in InitialDisks
  /\ \E env \in Environments :
       LET r == OpenResult(disk, env) IN
         /\ handle = r.handle
         /\ items = r.items
         /\ last = Call("Open", <<>>, 0, r.err, <<>>, FALSE, "none")
  /\ race = NoRace

Open ==
  /\ \E env \in Environments : Opened(disk, env)
  /\ UNCHANGED <<windows, disk, race>>

Add ==
  /\ handle
  /\ \E p \in Paths :
       LET r == AddResult(items, disk, p, windows) IN
         /\ Len(r.items) <= MaxItems
         /\ items' = r.items
         /\ disk' = r.disk
         /\ last' = Call("Add", p, 0, r.err, <<>>, FALSE, "none")
  /\ UNCHANGED <<windows, handle, race>>

RemoveIndex ==
  /\ handle
  /\ \E i \in -1..(MaxItems + 1) :
       LET r == RemoveIndexResult(items, disk, i) IN
         /\ items' = r.items
         /\ disk' = r.disk
         /\ last' = Call("RemoveIndex", <<>>, i, r.err, <<>>, FALSE, "none")
  /\ UNCHANGED <<windows, handle, race>>

RemovePath ==
  /\ handle
  /\ \E p \in Paths :
       LET r == RemovePathResult(items, disk, p, windows) IN
         /\ items' = r.items
         /\ disk' = r.disk
         /\ last' = Call("RemovePath", p, 0, r.err, <<>>, FALSE, "none")
  /\ UNCHANGED <<windows, handle, race>>

SelectInteractive ==
  /\ handle
  /\ \E a \in Answers(items) :
       LET r == SelectInteractiveResult(items, a) IN
         last' = Call("SelectInteractive", <<>>, 0, r.err, r.out, r.asked, a.kind)
  /\ UNCHANGED <<windows, disk, handle, items, race>>

Next == Open \/ Add \/ RemoveIndex \/ RemovePath \/ SelectInteractive

Spec == Init /\ [][Next]_vars

\* --------------------------------------------------- the command line
\* the run of decimal digits s starts with
RECURSIVE DigitsPrefix(_)
DigitsPrefix(s) ==
  IF s # <<>> /\ IsDigit(Head(s)) THEN <<Head(s)>> \o DigitsPrefix(Tail(s)) ELSE <<>>

RECURSIVE DecimalValue(_)
DecimalValue(ds) ==
  IF ds = <<>> THEN 0
  ELSE 10 * DecimalValue(SubSeq(ds, 1, Len(ds) - 1)) + (Ord(ds[Len(ds)]) - 48)

\* Sscanf(TrimSpace(s), "%d", &n): an optional sign and the digits that follow
\* it; whatever comes after the digits is left unread
parseIndex(s) ==
  LET t    == TrimSpace(s)
      sign == t # <<>> /\ t[1] \in {"+", "-"}
      ds   == DigitsPrefix(IF sign THEN Tail(t) ELSE t)
      n    == IF sign /\ t[1] = "-" THEN 0 - DecimalValue(ds) ELSE DecimalValue(ds)
  IN IF ds = <<>> \/ n <= 0 THEN [n |-> 0, err |-> TRUE] ELSE [n |-> n, err |-> FALSE]

\* os.Args has no third element
NoArg == <<"#none">>

\* os.Getwd
WorkDir == <<"/", "c">>

\* db.Path
ConfigPath == <<"#config.json">>

\* filepath.Abs: a rooted path is cleaned, another is joined to the working directory
Abs(p, env) ==
  IF p # <<>> /\ IsSeparator(p[1]) THEN [path |-> Clean(p), err |-> FALSE]
  ELSE IF env = "no working directory" THEN [path |-> <<>>, err |-> TRUE]
  ELSE IF p = <<>> THEN [path |-> Clean(WorkDir), err |-> FALSE]
  ELSE [path |-> Clean(WorkDir \o <<"/">> \o p), err |-> FALSE]

CliEnvironments == Environments \cup {"no working directory"}

\* how an invocation of main ends: the handle and list it held, the file it
\* leaves, "nil" or the log.Fatal message, and what it printed
Exit(h, its, d, err, out) ==
  [handle |-> h, items |-> its, disk |-> d, err |-> err, out |-> out, asked |-> FALSE]

\* main up to the switch: store.Open with the failures of the environment
Started(d, env) == OpenResult(d, IF env \in Environments THEN env ELSE "ok")

CmdAddResult(d, env, arg, win) ==
  LET o == Started(d, env) IN
  IF ~o.handle THEN Exit(FALSE, <<>>, d, "open store", <<>>)
  ELSE IF arg = NoArg /\ env = "no working directory"
    THEN Exit(TRUE, o.items, d, "getwd", <<>>)
  ELSE LET a == Abs(IF arg = NoArg THEN WorkDir ELSE arg, env) IN
       IF a.err THEN Exit(TRUE, o.items, d, "abs path", <<>>)
       ELSE LET r == AddResult(o.items, d, a.path, win) IN
            Exit(TRUE, r.items, r.disk, IF r.err = "nil" THEN "nil" ELSE "add", <<>>)

\* the lines list prints: the 1-based number and the entry
CmdListResult(d, env) ==
  LET o == Started(d, env) IN
  IF ~o.handle THEN Exit(FALSE, <<>>, d, "open store", <<>>)
  ELSE Exit(TRUE, o.items, d, "nil",
            [i \in 1..Len(List(o.items)) |-> <<i, List(o.items)[i]>>])

\* the lookup select and copy share: parseIndex, the bounds test, items[idx-1]
Lookup(its, arg) ==
  LET x == parseIndex(arg) IN
  IF x.err THEN [err |-> "invalid index", choice |-> <<>>]
  ELSE IF x.n <= 0 \/ x.n > Len(List(its)) THEN [err |-> "index out of range", choice |-> <<>>]
  ELSE [err |-> "nil", choice |-> List(its)[x.n]]

CmdSelectResult(d, env, arg, answer) ==
  LET o == Started(d, env) IN
  IF ~o.handle THEN Exit(FALSE, <<>>, d, "open store", <<>>)
  ELSE IF arg # NoArg
    THEN LET l == Lookup(o.items, arg) IN Exit(TRUE, o.items, d, l.err, l.choice)
  ELSE LET r == SelectInteractiveResult(o.items, answer) IN
       [Exit(TRUE, o.items, d, IF r.err = "nil" THEN "nil" ELSE "select", r.out)
          EXCEPT !.asked = r.asked]

\* written: clipboard.WriteAll succeeded; what is printed is what was copied
CmdCopyResult(d, env, arg, answer, written) ==
  LET o == Started(d, env) IN
  IF ~o.handle THEN Exit(FALSE, <<>>, d, "open store", <<>>)
  ELSE LET l == IF arg # NoArg THEN Lookup(o.items, arg)
                ELSE LET r == SelectInteractiveResult(o.items, answer)
                     IN [err |-> IF r.err = "nil" THEN "nil" ELSE "select", choice |-> r.out]
           asked == arg = NoArg /\ SelectInteractiveResult(o.items, answer).asked
       IN IF l.err # "nil" THEN [Exit(TRUE, o.items, d, l.err, <<>>) EXCEPT !.asked = asked]
          ELSE IF arg = NoArg /\ l.choice = <<>>
            THEN [Exit(TRUE, o.items, d, "nil", <<>>) EXCEPT !.asked = asked]
          ELSE IF ~written
            THEN [Exit(TRUE, o.items, d, "copy to clipboard", <<>>) EXCEPT !.asked = asked]
          ELSE [Exit(TRUE, o.items, d, "nil", l.choice) EXCEPT !.asked = asked]

CmdPathResult(d, env) ==
  LET o == Started(d, env) IN
  IF ~o.handle THEN Exit(FALSE, <<>>, d, "open store", <<>>)
  ELSE Exit(TRUE, o.items, d, "nil", ConfigPath)

\* remove handing the 1-based index on to RemoveIndex as it is
CmdRemoveOneBased(d, env, arg, win) ==
  LET o == Started(d, env) IN
  IF ~o.handle THEN Exit(FALSE, <<>>, d, "open store", <<>>)
  ELSE IF arg = NoArg THEN Exit(TRUE, o.items, d, "remove requires an index or path", <<>>)
  ELSE LET x == parseIndex(arg) IN
       IF ~x.err
       THEN LET r == RemoveIndexResult(o.items, d, x.n) IN
            Exit(TRUE, r.items, r.disk, IF r.err = "nil" THEN "nil" ELSE "remove index", <<>>)
       ELSE LET r == RemovePathResult(o.items, d, arg, win) IN
            Exit(TRUE, r.items, r.disk, IF r.err = "nil" THEN "nil" ELSE "remove path", <<>>)

CmdRemoveResult(d, env, arg, win) ==
  LET o == Started(d, env) IN
  IF ~o.handle THEN Exit(FALSE, <<>>, d, "open store", <<>>)
  ELSE IF arg = NoArg THEN Exit(TRUE, o.items, d, "remove requires an index or path", <<>>)
  ELSE LET x == parseIndex(arg) IN
       IF ~x.err
       THEN LET r == RemoveIndexResult(o.items, d, x.n - 1) IN
            Exit(TRUE, r.items, r.disk, IF r.err = "nil" THEN "nil" ELSE "remove index", <<>>)
       ELSE LET r == RemovePathResult(o.items, d, arg, win) IN
            Exit(TRUE, r.items, r.disk, IF r.err = "nil" THEN "nil" ELSE "remove path", <<>>)

\* no command at all prints the usage before the store is opened; a command
\* the switch does not know prints it after
CmdUsageResult(d, env, hasCommand) ==
  IF ~hasCommand THEN Exit(FALSE, <<>>, d, "nil", <<>>)
  ELSE LET o == Started(d, env) IN
       IF ~o.handle THEN Exit(FALSE, <<>>, d, "open store", <<>>)
       ELSE Exit(TRUE, o.items, d, "nil", <<>>)

\* the decimal numeral of k, -9 <= k <= 9
DigitChar(k) ==
  CASE k = 0 -> "0" [] k = 1 -> "1" [] k = 2 -> "2" [] k = 3 -> "3" [] k = 4 -> "4"
    [] k = 5 -> "5" [] k = 6 -> "6" [] k = 7 -> "7" [] k = 8 -> "8" [] OTHER -> "9"

Numeral(k) == IF k < 0 THEN <<"-", DigitChar(0 - k)>> ELSE <<DigitChar(k)>>

Indexes == (0 - 1)..(MaxItems + 1)

\* the arguments of add
AddArgs == { NoArg, <<"/", "b">>, <<"/", "A", "b">>, <<"b">> }

\* the arguments of select, copy and remove
IndexArgs ==
  {Numeral(k) : k \in Indexes}
    \cup { NoArg, <<" ", "2">>, <<"2", "b">>, <<"/", "b">> }

\* one invocation of the tool ran to its end
Ran(op, arg, r, answer) ==
  /\ handle' = r.handle
  /\ items' = r.items
  /\ disk' = r.disk
  /\ last' = Call(op, arg, 0, r.err, r.out, r.asked, answer)
  /\ UNCHANGED <<windows, race>>

CmdAdd ==
  \E env \in CliEnvironments, arg \in AddArgs :
    LET r == CmdAddResult(disk, env, arg, windows) IN
      /\ Len(r.items) <= MaxItems
      /\ Ran("add", arg, r, "none")

CmdList ==
  \E env \in Environments :
    Ran("list", NoArg, CmdListResult(disk, env), "none")

\* what the chooser has to report in an invocation that may consult it
CliAnswers(env, arg) ==
  IF arg = NoArg /\ Started(disk, env).items # <<>>
  THEN Answers(Started(disk, env).items)
  ELSE {[kind |-> "none", choice |-> <<>>]}

CmdSelect ==
  \E env \in Environments, arg \in IndexArgs :
    \E a \in CliAnswers(env, arg) :
      Ran("select", arg, CmdSelectResult(disk, env, arg, a), a.kind)

CmdCopy ==
  \E env \in Environments, arg \in IndexArgs, written \in BOOLEAN :
    \E a \in CliAnswers(env, arg) :
      Ran("copy", arg, CmdCopyResult(disk, env, arg, a, written), a.kind)

CmdPath ==
  \E env \in Environments :
    Ran("path", NoArg, CmdPathResult(disk, env), "none")

CmdRemove ==
  \E env \in Environments, arg \in IndexArgs :
    Ran("remove", arg, CmdRemoveResult(disk, env, arg, windows), "none")

CmdUsage ==
  \E env \in Environments, hasCommand \in BOOLEAN :
    Ran("usage", NoArg, CmdUsageResult(disk, env, hasCommand), "none")

\* before the first invocation
InitCLI ==
  /\ windows \in BOOLEAN
  /\ disk \in InitialDisks
  /\ handle = FALSE
  /\ items = <<>>
  /\ last = Call("none", NoArg, 0, "nil", <<>>, FALSE, "none")
  /\ race = NoRace

NextCLI == CmdAdd \/ CmdList \/ CmdSelect \/ CmdCopy \/ CmdPath \/ CmdRemove \/ CmdUsage

SpecCLI == InitCLI /\ [][NextCLI]_vars

\* ------------------------------------------- two invocations at a time
\* Two invocations of the tool share the backing file, which nothing locks.
\* Each opens the store, makes one call that changes the list, and saves.
\* os.WriteFile is two system calls: OpenFile with O_TRUNC empties the file,
\* Write then puts the bytes at offset 0 of whatever the file holds by then.
Procs == {1, 2}

RECURSIVE SumLen(_)
SumLen(its) == IF its = <<>> THEN 0 ELSE 7 + Len(Head(its)) + SumLen(Tail(its))

\* the number of bytes json.MarshalIndent(d, "", "  ") makes of the list
DocLen(its) ==
  IF its = <<>> THEN 17 ELSE 14 + SumLen(its) + (Len(its) - 1) + 6

\* a file of n bytes that is no JSON document: empty, or a document followed
\* by the last bytes of a longer one written before
Garbled(n) == [kind |-> "syntax", items |-> <<>>, len |-> n]

FileLen(d) ==
  IF d.kind = "json" THEN DocLen(d.items)
  ELSE IF "len" \in DOMAIN d THEN d.len
  ELSE 0

\* OpenFile(name, O_WRONLY|O_CREATE|O_TRUNC, perm)
Truncate(d) == Garbled(0)

\* f.Write(b) at offset 0 of the file d, b being the document of the list
WriteAtStart(d, its) ==
  IF FileLen(d) <= DocLen(its) THEN Document(its) ELSE Garbled(FileLen(d))

\* the calls an invocation makes between Open and save
RacePaths == { <<"/", "b">>, <<"/", "A", "b">>, <<"/", "A", "B">> }

RaceCalls ==
  {[op |-> "Add", p |-> x, i |-> 0] : x \in RacePaths}
    \cup {[op |-> "RemovePath", p |-> x, i |-> 0] : x \in {<<"/", "b">>}}
    \cup {[op |-> "RemoveIndex", p |-> <<>>, i |-> k] : k \in 0..1}

\* the list the call leaves in memory, and whether the call went on to d.save()
InMemory(its, c, win) ==
  LET r == IF c.op = "Add" THEN AddResult(its, Absent, c.p, win)
           ELSE IF c.op = "RemovePath" THEN RemovePathResult(its, Absent, c.p, win)
           ELSE RemoveIndexResult(its, Absent, c.i)
  IN [items |-> r.items, saves |-> r.disk # Absent]

\* the documents the two invocations may find
RaceDisks ==
  { Absent, Document(<< <<"/", "b">> >>), Document(<< <<"/", "A", "b">>, <<"/", "b">> >>) }

InitRace ==
  /\ windows \in BOOLEAN
  /\ disk \in RaceDisks
  /\ handle = FALSE
  /\ items = <<>>
  /\ last = Call("none", <<>>, 0, "nil", <<>>, FALSE, "none")
  /\ race = [pc |-> [p \in Procs |-> "start"], mem |-> [p \in Procs |-> <<>>], wrote |-> <<>>]

RaceOpen ==
  /\ \E p \in Procs, env \in Environments :
       LET o == OpenResult(disk, env) IN
         /\ race.pc[p] = "start"
         /\ race' = [race EXCEPT !.pc[p] = IF o.handle THEN "opened" ELSE "done",
                                 !.mem[p] = o.items]
  /\ UNCHANGED <<windows, disk, handle, items, last>>

RaceCall ==
  /\ \E p \in Procs, c \in RaceCalls :
       LET m == InMemory(race.mem[p], c, windows) IN
         /\ race.pc[p] = "opened"
         /\ race' = [race EXCEPT !.pc[p] = IF m.saves THEN "saving" ELSE "done",
                                 !.mem[p] = m.items]
  /\ UNCHANGED <<windows, disk, handle, items, last>>

RaceTruncate ==
  /\ \E p \in Procs :
       /\ race.pc[p] = "saving"
       /\ disk' = Truncate(disk)
       /\ race' = [race EXCEPT !.pc[p] = "truncated"]
  /\ UNCHANGED <<windows, handle, items, last>>

RaceWrite ==
  /\ \E p \in Procs :
       /\ race.pc[p] = "truncated"
       /\ disk' = WriteAtStart(disk, race.mem[p])
       /\ race' = [race EXCEPT !.pc[p] = "done", !.wrote = Append(@, p)]
  /\ UNCHANGED <<windows, handle, items, last>>

NextRace == RaceOpen \/ RaceCall \/ RaceTruncate \/ RaceWrite

SpecRace == InitRace /\ [][NextRace]_vars

\* ------------------------------------------------------- a long list
\* a store that holds ten directories already
SortBase == [k \in 1..10 |-> <<"/", "b", DigitChar(k - 1)>>]

SortDisks == { Document(SortBase), Document(<< <<"/", "a">> >> \o SortBase) }

\* the directories added to it
SortPaths ==
  { <<"/", "A">>,
    <<"/", "a">>,
    <<"/", "a", "a">>,
    <<"/", "B", "5">>,
    <<"/", "b", "5">>,
    <<"/", "c">> }

InitSort ==
  /\ windows \in BOOLEAN
  /\ disk \in SortDisks
  /\ LET r == OpenResult(disk, "ok") IN
       /\ handle = r.handle
       /\ items = r.items
       /\ last = Call("Open", <<>>, 0, r.err, <<>>, FALSE, "none")
  /\ race = NoRace

SortAdd ==
  /\ handle
  /\ \E p \in SortPaths :
       LET r == AddResult(items, disk, p, windows) IN
         /\ Len(r.items) <= maxInsertion + 1
         /\ items' = r.items
         /\ disk' = r.disk
         /\ last' = Call("Add", p, 0, r.err, <<>>, FALSE, "none")
  /\ UNCHANGED <<windows, handle, race>>

NextSort == Open \/ SortAdd

SpecSort == InitSort /\ [][NextSort]_vars

\* ----------------------------------------------------------------- claims
Range(s) == {s[k] : k \in 1..Len(s)}

\* C1: List() never holds two entries that are equal under normalize, in any
\* state reached through Open, Add, RemoveIndex and RemovePath.
C1_NoDuplicates ==
  handle =>
    \A j, k \in 1..Len(List(items)) :
      j < k => normalize(List(items)[j], windows) # normalize(List(items)[k], windows)

\* C2: List() is always sorted case-insensitively: every adjacent pair (a, b)
\* has lower(a) <= lower(b).
C2_Sorted ==
  handle =>
    \A k \in 1..(Len(List(items)) - 1) :
      ~StrLess(ToLower(List(items)[k + 1]), ToLower(List(items)[k]))

\* C3: a fresh Open of the backing file yields the List() of the store that
\* performed the mutations, same elements in the same order.
C3_RoundTrip ==
  handle => List(OpenResult(disk, "ok").items) = List(items)

\* C4: Open fails with a format error on a file that is no valid document, and
\* with an I/O error on a file that cannot be read; it hands out a handle (with
\* an empty list) for a missing file only.
C4_OpenRejectsBadFile ==
  last.op = "Open" =>
    /\ load(disk).err = "format" => (~handle /\ last.err \in {"format", "io"})
    /\ load(disk).err = "io" => (~handle /\ last.err = "io")

\* C5: Add of an empty or all-whitespace string fails with a validation error
\* and changes neither the list nor the document.
C5_EmptyAddFails ==
  [][(last'.op = "Add" /\ TrimSpace(last'.p) = <<>>) =>
       (last'.err = "empty path" /\ items' = items /\ disk' = disk)]_vars

\* the entries of the list that are normalized-equal to the path q
Equivalent(its, q) ==
  {k \in 1..Len(its) : normalize(its[k], windows) = normalize(q, windows)}

\* C6: a failed removal changes nothing: RemoveIndex with an index below 0 or
\* at or above the length returns the out-of-range error, RemovePath of a path
\* no entry is normalized-equal to returns the not-found error, and both leave
\* the list and the document as they were.
C6_FailedRemovalChangesNothing ==
  [][/\ (last'.op = "RemoveIndex" /\ (last'.i < 0 \/ last'.i >= Len(items))) =>
          (last'.err = "index out of range" /\ items' = items /\ disk' = disk)
     /\ (last'.op = "RemovePath" /\ Equivalent(items, last'.p) = {}) =>
          (last'.err = "path not found" /\ items' = items /\ disk' = disk)]_vars

\* an out-of-range RemoveIndex on a list that is not empty, with a document on
\* disk that a rewrite would have changed
C6_Witness ==
  /\ last.op = "RemoveIndex"
  /\ last.err = "index out of range"
  /\ last.i = Len(items)
  /\ items # <<>>
  /\ disk # save(items)

PathVarData == <<"/", "A", "b">>

PathVARDATA == <<"/", "A", "B">>

\* C7: RemovePath(q) succeeds exactly when some entry is normalized-equal to q
\* and then removes the first such entry and no other; after Add("/Ab") on an
\* empty list, RemovePath("/AB") empties the list where case is folded and
\* fails with not-found, leaving the entry, where it is not.
C7_RemovePathMatchesLikeAdd ==
  [][last'.op = "RemovePath" =>
       /\ (last'.err = "nil") <=> (Equivalent(items, last'.p) # {})
       /\ Equivalent(items, last'.p) # {} =>
            /\ items' = RemoveAt(items, Min(Equivalent(items, last'.p)))
            /\ disk' = Document(items')
       /\ Equivalent(items, last'.p) = {} => last'.err = "path not found"
       /\ (last.op = "Add" /\ last.p = PathVarData /\ Len(items) = 1
             /\ last'.p = PathVARDATA) =>
            IF windows THEN last'.err = "nil" /\ items' = <<>>
            ELSE last'.err = "path not found" /\ items' = items]_vars

\* RemovePath("/AB") removed an entry where case is folded
C7_Witness ==
  /\ windows
  /\ last.op = "RemovePath"
  /\ last.p = PathVARDATA
  /\ last.err = "nil"
  /\ items = <<>>
  /\ disk = Document(<<>>)

\* C8: where case is folded, the entry a successful Add puts into the list and
\* into the document is the trimmed and cleaned argument in its original case.
C8_StoredCaseKept ==
  [][(windows /\ last'.op = "Add" /\ Len(items') = Len(items) + 1) =>
       /\ Clean(TrimSpace(last'.p)) \in Range(List(items'))
       /\ Clean(TrimSpace(last'.p)) \in Range(disk'.items)]_vars

\* C9: SelectInteractive on an empty list returns "" and no error without
\* asking; a cancelled prompt gives "" and no error; only a prompt failure
\* other than cancellation gives an error; otherwise the result is the chosen
\* entry of List(); the list and the document never change.
C9_SelectInteractive ==
  [][last'.op = "SelectInteractive" =>
       /\ items' = items /\ disk' = disk
       /\ items = <<>> => (~last'.asked /\ last'.out = <<>> /\ last'.err = "nil")
       /\ (last'.asked /\ last'.answer = "interrupt") =>
            (last'.out = <<>> /\ last'.err = "nil")
       /\ (last'.err # "nil") <=> (last'.asked /\ last'.answer = "failure")
       /\ (last'.asked /\ last'.answer = "chosen") =>
            (last'.err = "nil" /\ last'.out \in Range(List(items)))]_vars

\* the user cancelled the prompt over a list that is not empty
C9_Witness ==
  /\ last.op = "SelectInteractive"
  /\ last.asked
  /\ last.answer = "interrupt"
  /\ last.out = <<>>
  /\ last.err = "nil"
  /\ items # <<>>

\* the entries list prints for the file d, in the order of their numbers
Listed(d) ==
  LET out == CmdListResult(d, "ok").out IN [k \in 1..Len(out) |-> out[k][2]]

\* C10: an index argument k of the command line is 1-based and names the entry
\* list prints with number k: with n entries and 1 <= k <= n, select k prints
\* that entry and remove k deletes that entry and keeps the others in their
\* order; with k outside 1..n, select, copy and remove fail and leave the store
\* as it was (in an invocation that could open the store).
C10_OneBasedIndex ==
  [][\A k \in Indexes :
       (handle' /\ last'.p = Numeral(k)) =>
         LET n == Len(Listed(disk)) IN
         /\ (last'.op = "select" /\ k >= 1 /\ k <= n) =>
              (last'.err = "nil" /\ last'.out = Listed(disk)[k] /\ disk' = disk)
         /\ (last'.op = "remove" /\ k >= 1 /\ k <= n) =>
              (last'.err = "nil" /\ items' = RemoveAt(Listed(disk), k)
                 /\ disk' = Document(items'))
         /\ (last'.op \in {"select", "copy", "remove"} /\ (k < 1 \/ k > n)) =>
              (last'.err # "nil" /\ disk' = disk /\ items' = Listed(disk))]_vars

\* remove 2 deleted the second of three entries
C10_Witness ==
  /\ last.op = "remove"
  /\ last.p = Numeral(2)
  /\ last.err = "nil"
  /\ Len(items) = 2
  /\ disk = Document(items)

\* C11: with two invocations racing on the unlocked file, each loading, making
\* one change and rewriting the whole file, the last writer wins: once both
\* have ended, the document is the list of the invocation that wrote last.
C11_LastWriterWins ==
  ((\A p \in Procs : race.pc[p] = "done") /\ race.wrote # <<>>) =>
    disk = Document(List(race.mem[race.wrote[Len(race.wrote)]]))

\* x stands before y in the list
Before(s, x, y) == \E i, j \in 1..Len(s) : i < j /\ s[i] = x /\ s[j] = y

\* C12: the sort after a mutation and on load is stable: at every step two
\* entries whose lower-cased forms are equal keep the order they had in List(),
\* and an entry added now comes after the entries it ties with.
C12_StableSort ==
  [][\A x \in Range(items), y \in Range(items') :
       (x # y /\ ToLower(x) = ToLower(y) /\ x \in Range(items')
        /\ (y \in Range(items) => Before(items, x, y)))
         => Before(items', x, y)]_vars
====
